---- MODULE Spec2Model ----
(***************************************************************************)
(* Launch middleware of the AMD GPU and RTSS workaround plugins.           *)
(*                                                                         *)
(* Three plugins start with the application:                               *)
(*   "amd"   xmcl-electron-app/main/pluginAMDGPUWorkaround.ts              *)
(*   "amd0"  the second pluginAMDGPUWorkaround of the sources, which       *)
(*           filters options.extraJVMArgs only                             *)
(*   "rtss"  xmcl-electron-app/main/pluginRTSSWorkaround.ts                *)
(* Each checks the platform, awaits its probe and registers a middleware   *)
(* with the LaunchService; a launch passes its payload through the         *)
(* registered onBeforeLaunch hooks.                                        *)
(*                                                                         *)
(* Representation.  A JavaScript string is a sequence of tokens, so that   *)
(* startsWith is a real prefix test.  An optional field is <<>> when it is *)
(* absent and <<v>> when it holds v.  An environment map is a function     *)
(* from the keys it holds to their values.                                 *)
(***************************************************************************)
EXTENDS Integers, Sequences, FiniteSets, TLC

VARIABLES
    platform,     \* app.platform.os
    processEnv,   \* process.env of the launcher
    pc,           \* position of each plugin's startup function
    gpuInfo,      \* per AMD plugin: what getGPUInfo resolved with, once it did
    rtssProbe,    \* what the tasklist query of the RTSS plugin ended with
    rtssRunning,  \* the rtssRunning variable captured by the RTSS hook
    startupLog,   \* per plugin: log records its startup function wrote
    middlewares,  \* the LaunchService's registered middlewares, in order
    lpc,          \* position of the launch: "idle", "running", "spawned", "failed"
    queue,        \* hooks of the running launch still to be invoked
    ran,          \* hooks already invoked for the running launch
    input,        \* the launch input (gameDirectory)
    payload,      \* the launch request being mutated
    orig,         \* the request as the launch received it
    pre,          \* the request as the last invoked hook received it
    lastLog,      \* log records written by the last invoked hook
    removed       \* <<removedExtra, removedJvm>> of the last AMD hook call

vars == <<platform, processEnv, pc, gpuInfo, rtssProbe, rtssRunning, startupLog,
          middlewares, lpc, queue, ran, input, payload, orig, pre, lastLog,
          removed>>

plugVars == <<pc, gpuInfo, rtssProbe, rtssRunning, startupLog, middlewares>>
launchVars == <<lpc, queue, ran, input, payload, orig, pre, lastLog, removed>>

----------------------------------------------------------------------------
(* Bounds *)

\* longest argument list of a request
MaxArgs == 2

----------------------------------------------------------------------------
(* Options, strings, maps *)

None == <<>>
Some(v) == <<v>>
IsSome(o) == Len(o) = 1
Get(o) == o[1]

SeqsUpTo(S, n) == UNION {[1..k -> S] : k \in 0..n}

\* the test with receiver and argument swapped: prop.startsWith(arg)
StartsWith_Swapped(arg, prop) ==
    /\ Len(prop) >= Len(arg)
    /\ SubSeq(prop, 1, Len(arg)) = arg

\* String.prototype.startsWith
StartsWith(arg, prop) ==
    /\ Len(arg) >= Len(prop)
    /\ SubSeq(arg, 1, Len(prop)) = prop

\* { ...a, ...b }: the keys of both, b's value where both have the key
Spread(a, b) ==
    [k \in (DOMAIN a) \cup (DOMAIN b) |-> IF k \in DOMAIN b THEN b[k] ELSE a[k]]

EmptyMap == [k \in {} |-> "1"]

----------------------------------------------------------------------------
(* The AMD GPU workaround hook *)

\* the problematicProperties array of onBeforeLaunch
problematicProperties ==
    << <<"-D", "jna.tmpdir", "=">>,
       <<"-D", "org.lwjgl.system.SharedLibraryExtractPath", "=">>,
       <<"-D", "io.netty.native.workdir", "=">> >>

\* problematicProperties.some(prop => arg.startsWith(prop))
IsProblematic(arg) ==
    \E i \in 1..Len(problematicProperties) : StartsWith(arg, problematicProperties[i])

\* the callback of the extraJVMArgs filter
KeepExtra(arg) == ~IsProblematic(arg)

\* the callback without its typeof test: the value of a rule-based argument
\* is prefix-matched too
KeepJvm_NoTypeof(arg) == ~IsProblematic(arg.value)

\* the callback of the version.arguments.jvm filter; an entry of that list is
\* a string (isString) or a rule-based argument carrying rules and a value
KeepJvm(arg) == IF arg.isString THEN ~IsProblematic(arg.value) ELSE TRUE

\* an entry of extraJVMArgs that is no string (null): calling startsWith on it
\* in the filter callback is a TypeError
NullEntry == <<"(null)">>

\* payload.options.extraJVMArgs after `if (!extraJVMArgs) extraJVMArgs = []`
ExtraOrEmpty(p) ==
    IF IsSome(p.options.extraJVMArgs) THEN Get(p.options.extraJVMArgs) ELSE <<>>

\* a hook without `if (!extraJVMArgs) extraJVMArgs = []`: reading .length of
\* the absent list is a TypeError too
ExtraThrows_NoInit(p) ==
    \/ ~IsSome(p.options.extraJVMArgs)
    \/ \E i \in 1..Len(ExtraOrEmpty(p)) : ExtraOrEmpty(p)[i] = NullEntry

\* the extraJVMArgs filter throws: arg.startsWith is not a function
ExtraThrows(p) == \E i \in 1..Len(ExtraOrEmpty(p)) : ExtraOrEmpty(p)[i] = NullEntry

\* 'arguments' in payload.version && payload.version.arguments?.jvm
HasJvm(p) ==
    /\ p.version.hasArguments
    /\ IsSome(p.version.arguments)
    /\ IsSome(Get(p.version.arguments).jvm)

JvmOf(p) == Get(Get(p.version.arguments).jvm)

\* onBeforeLaunch of 'amd-gpu-workaround' (pluginAMDGPUWorkaround.ts): the
\* payload it leaves, the records it logs, and its two removed counts
AMDOnBeforeLaunch(p) ==
    IF p.side = "server"
    THEN [payload |-> p, log |-> <<>>, removed |-> <<0, 0>>, threw |-> FALSE]
    ELSE
      LET extra0 == ExtraOrEmpty(p)
          extra1 == SelectSeq(extra0, KeepExtra)
          removedExtra == Len(extra0) - Len(extra1)
          p1 == [p EXCEPT !.options.extraJVMArgs = Some(extra1)]
          jvm1 == SelectSeq(JvmOf(p), KeepJvm)
          removedJvm == IF HasJvm(p) THEN Len(JvmOf(p)) - Len(jvm1) ELSE 0
          p2 == IF HasJvm(p)
                THEN [p1 EXCEPT !.version.arguments =
                                  Some([Get(@) EXCEPT !.jvm = Some(jvm1)])]
                ELSE p1
          log == <<  <<"AMD GPU Workaround middleware triggered", 0>>  >>
                 \o (IF removedJvm > 0
                     THEN << <<"Removed from version JVM args", removedJvm>> >>
                     ELSE <<>>)
                 \o (IF removedExtra > 0
                     THEN << <<"Removed from extra JVM args", removedExtra>> >>
                     ELSE <<>>)
                 \o (IF removedExtra = 0 /\ p.version.hasArguments /\ ~HasJvm(p)
                     THEN << <<"No problematic properties found to remove", 0>> >>
                     ELSE <<>>)
      IN IF ExtraThrows(p)
         THEN [payload |-> p,
               log |-> << <<"AMD GPU Workaround middleware triggered", 0>> >>,
               removed |-> <<0, 0>>, threw |-> TRUE]
         ELSE [payload |-> p2, log |-> log, removed |-> <<removedExtra, removedJvm>>,
               threw |-> FALSE]

\* onBeforeLaunch of the second 'amd-gpu-workaround' of the sources: it
\* filters options.extraJVMArgs and leaves version.arguments.jvm alone
AMD0OnBeforeLaunch(p) ==
    IF p.side = "server"
    THEN [payload |-> p, log |-> <<>>, removed |-> <<0, 0>>, threw |-> FALSE]
    ELSE
      LET extra0 == ExtraOrEmpty(p)
          extra1 == SelectSeq(extra0, KeepExtra)
          removedX == Len(extra0) - Len(extra1)
          p1 == [p EXCEPT !.options.extraJVMArgs = Some(extra1)]
          log == IF removedX > 0
                 THEN << <<"Removed for AMD GPU compatibility", removedX>> >>
                 ELSE <<>>
      IN IF ExtraThrows(p)
         THEN [payload |-> p, log |-> <<>>, removed |-> <<0, 0>>, threw |-> TRUE]
         ELSE [payload |-> p1, log |-> log, removed |-> <<removedX, 0>>, threw |-> FALSE]

----------------------------------------------------------------------------
(* The RTSS workaround hook *)

\* the variables the hook forces
OverrideKeys ==
    {"RTSS_EXCLUDE", "NoHook", "NOHOOKEX", "DISABLE_RTSS_LAYER",
     "DISABLE_OVERLAY_INJECTION", "DISABLE_VK_LAYER_AMD_switchable_graphics_1",
     "DISABLE_VK_LAYER_NVIDIA_optimus_1"}

Overrides == [k \in OverrideKeys |-> "1"]

\* the extraExecOption the hook creates when the request has none
DefaultExecOption(inp) ==
    [shell |-> FALSE, detached |-> TRUE, cwd |-> inp.gameDirectory,
     env |-> Some(EmptyMap)]

\* ...payload.options.extraExecOption.env: spreading undefined adds nothing
PriorEnv(opt) == IF IsSome(opt.env) THEN Get(opt.env) ELSE EmptyMap

\* the spread without ...process.env: the map starts from what the request carried
ComposeEnv_Unseeded(env, opt) == Spread(PriorEnv(opt), Overrides)

\* the spread with its first two layers swapped
ComposeEnv_InheritedOverPrior(env, opt) == Spread(Spread(PriorEnv(opt), env), Overrides)

\* the environment map the hook assigns
ComposeEnv(env, opt) == Spread(Spread(env, PriorEnv(opt)), Overrides)

\* a hook that sets the overrides only for a request that carries extra JVM
\* arguments: it reads a list the AMD hook writes
RTSSOnBeforeLaunch_ReadsJvmArgs(inp, p, env, running) ==
    IF p.side = "server"
    THEN [payload |-> p, log |-> <<>>, removed |-> <<0, 0>>, threw |-> FALSE]
    ELSE
      LET opt0 == IF IsSome(p.options.extraExecOption)
                  THEN Get(p.options.extraExecOption)
                  ELSE DefaultExecOption(inp)
          opt1 == [opt0 EXCEPT !.env =
                      Some(IF ExtraOrEmpty(p) = <<>>
                           THEN Spread(env, PriorEnv(opt0))
                           ELSE ComposeEnv(env, opt0))]
      IN [payload |-> [p EXCEPT !.options.extraExecOption = Some(opt1)],
          log |-> << <<"RTSS Workaround middleware triggered", 0>> >>,
          removed |-> <<0, 0>>, threw |-> FALSE]

\* the hook without its side check
RTSSOnBeforeLaunch_NoSideCheck(inp, p, env, running) ==
    LET opt0 == IF IsSome(p.options.extraExecOption)
                THEN Get(p.options.extraExecOption)
                ELSE DefaultExecOption(inp)
        opt1 == [opt0 EXCEPT !.env = Some(ComposeEnv(env, opt0))]
    IN [payload |-> [p EXCEPT !.options.extraExecOption = Some(opt1)],
        log |-> << <<"RTSS Workaround middleware triggered", 0>> >>,
        removed |-> <<0, 0>>, threw |-> FALSE]

\* onBeforeLaunch of 'rtss-workaround'
RTSSOnBeforeLaunch(inp, p, env, running) ==
    IF p.side = "server"
    THEN [payload |-> p, log |-> <<>>, removed |-> <<0, 0>>, threw |-> FALSE]
    ELSE
      LET opt0 == IF IsSome(p.options.extraExecOption)
                  THEN Get(p.options.extraExecOption)
                  ELSE DefaultExecOption(inp)
          opt1 == [opt0 EXCEPT !.env = Some(ComposeEnv(env, opt0))]
          log == << <<"RTSS Workaround middleware triggered", 0>>,
                    <<"Added overlay exclusion environment variables", 7>> >>
                 \o (IF running
                     THEN << <<"RTSS is currently running - exclusion variables set", 0>> >>
                     ELSE <<>>)
      IN [payload |-> [p EXCEPT !.options.extraExecOption = Some(opt1)],
          log |-> log, removed |-> <<0, 0>>, threw |-> FALSE]

----------------------------------------------------------------------------
(* Inputs *)

Xmx == <<"-Xmx2G">>
Jna == <<"-D", "jna.tmpdir", "=", "/x">>
Lwjgl == <<"-D", "org.lwjgl.system.SharedLibraryExtractPath", "=", "/x">>
Netty == <<"-D", "io.netty.native.workdir", "=", "/x">>
\* a proper prefix of a problematic property: no match
JnaNoValue == <<"-D", "jna.tmpdir">>

StringArg(str) == [isString |-> TRUE, value |-> str, rules |-> <<>>]
RuleArg(str) == [isString |-> FALSE, value |-> str, rules |-> <<"allow", "windows">>]

ExtraPool == {Xmx, Jna, JnaNoValue}
JvmPool == {StringArg(Xmx), StringArg(Netty), RuleArg(Jna)}

ExtraChoices == {None} \cup {Some(l) : l \in SeqsUpTo(ExtraPool, MaxArgs)}

\* version without an arguments key, with arguments undefined, with
\* arguments lacking jvm, and with a jvm list
VersionChoices ==
    {[hasArguments |-> FALSE, arguments |-> None],
     [hasArguments |-> TRUE, arguments |-> None],
     [hasArguments |-> TRUE, arguments |-> Some([jvm |-> None])]}
    \cup {[hasArguments |-> TRUE, arguments |-> Some([jvm |-> Some(l)])] :
            l \in SeqsUpTo(JvmPool, MaxArgs)}

\* process.env of the launcher
InheritedEnvs ==
    {[k \in {"PATH"} |-> "/bin"],
     [k \in {"PATH", "TEMP", "RTSS_EXCLUDE"} |->
        IF k = "PATH" THEN "/bin" ELSE IF k = "TEMP" THEN "/tmp" ELSE "inherited"]}

\* environment maps a request may already carry
PriorEnvs ==
    {EmptyMap,
     [k \in {"PATH", "NoHook", "JAVA_HOME"} |->
        IF k = "PATH" THEN "/prior" ELSE IF k = "NoHook" THEN "0" ELSE "/jdk"],
     [k \in {"RTSS_EXCLUDE"} |-> "0"]}

ExecChoices ==
    {None,
     Some([shell |-> TRUE, detached |-> FALSE, cwd |-> "/custom", env |-> None])}
    \cup {Some([shell |-> TRUE, detached |-> FALSE, cwd |-> "/custom", env |-> Some(e)]) :
            e \in PriorEnvs}

Request(side, extra, version, exec) ==
    [side |-> side,
     options |-> [extraJVMArgs |-> extra, extraExecOption |-> exec],
     version |-> version]

NoArguments == [hasArguments |-> FALSE, arguments |-> None]
SomeJvm == [hasArguments |-> TRUE,
            arguments |-> Some([jvm |-> Some(<<StringArg(Netty), RuleArg(Jna)>>)])]

\* requests that vary the extra JVM arguments, the version, the spawn options
Requests ==
    {Request(s, x, NoArguments, None) : s \in {"client", "server"}, x \in ExtraChoices}
    \cup
    {Request(s, x, v, None) : s \in {"client", "server"},
                              x \in {None, Some(<<Lwjgl, Xmx>>)}, v \in VersionChoices}
    \cup
    {Request(s, Some(<<Lwjgl, Xmx>>), SomeJvm, e) : s \in {"client", "server"},
                                                  e \in ExecChoices}
    \cup
    {Request("client", Some(<<Xmx, NullEntry>>), SomeJvm, None)}

\* the value of the launch variables while no launch runs
NoRequest == Request("server", None, NoArguments, None)

Inputs == {[gameDirectory |-> "/game"]}

\* vendor id of AMD (0x1002)
AMDVendorId == 4098

\* a device entry of the GPU inventory: null, or an object with a vendorId
AMDGpu == Some([vendorId |-> AMDVendorId])
OtherGpu == Some([vendorId |-> 4318])

\* what getGPUInfo('basic') ends with: a rejection, undefined, an object
\* without gpuDevice, an object whose gpuDevice is no array, a device list
GPUInfos ==
    {[kind |-> k, gpuDevice |-> <<>>] :
        k \in {"rejected", "undefined", "noDeviceList", "deviceNotArray"}}
    \cup {[kind |-> "deviceList", gpuDevice |-> l] :
            l \in {<<None, OtherGpu>>, <<OtherGpu, AMDGpu>>}}

\* what the tasklist query ends with: exec throws, or stdout (as lines)
TasklistResults ==
    {[threw |-> TRUE, stdout |-> <<>>],
     [threw |-> FALSE, stdout |-> <<"INFO: No tasks are running">>],
     [threw |-> FALSE, stdout |-> <<"java.exe", "RTSS.exe">>]}

----------------------------------------------------------------------------
(* Plugin startup *)

AMDPlugins == {"amd", "amd0"}
Plugins == AMDPlugins \cup {"rtss"}

\* the middleware object each plugin registers
Middleware(plugin) ==
    [name |-> IF plugin = "rtss" THEN "rtss-workaround" ELSE "amd-gpu-workaround",
     hook |-> plugin]

\* info?.gpuDevice || []
GpusOf(info) ==
    IF info.kind \in {"deviceList", "deviceNotArray"} THEN info.gpuDevice ELSE <<>>

\* a check that takes a missing inventory for an AMD GPU
HasAMD_AssumeWhenUnknown(info) ==
    \/ info.kind # "deviceList"
    \/ \E i \in 1..Len(GpusOf(info)) :
           /\ IsSome(GpusOf(info)[i])
           /\ Get(GpusOf(info)[i]).vendorId = AMDVendorId

\* gpus.some(gpu => gpu?.vendorId === 4098)
HasAMD(info) ==
    \E i \in 1..Len(GpusOf(info)) :
        /\ IsSome(GpusOf(info)[i])
        /\ Get(GpusOf(info)[i]).vendorId = AMDVendorId

\* stdout.toLowerCase(), line by line
ToLowerCase(line) == IF line = "RTSS.exe" THEN "rtss.exe" ELSE line

\* stdout.toLowerCase().includes('rtss.exe')
IncludesRTSS(stdout) == \E i \in 1..Len(stdout) : ToLowerCase(stdout[i]) = "rtss.exe"

\* if (app.platform.os !== 'windows') return
PlatformCheck(p) ==
    /\ pc[p] = "start"
    /\ pc' = [pc EXCEPT ![p] = IF platform # "windows" THEN "returned" ELSE "probing"]
    /\ UNCHANGED <<platform, processEnv, gpuInfo, rtssProbe, rtssRunning, startupLog,
                   middlewares>>
    /\ UNCHANGED launchVars

\* a plugin that asks for the GPU inventory again after it found no AMD GPU
AMDProbe_Repeats(p, info) ==
    /\ p \in AMDPlugins
    /\ pc[p] \in {"probing", "returned"}
    /\ platform = "windows"
    /\ gpuInfo' = [gpuInfo EXCEPT ![p] = Some(info)]
    /\ IF info.kind \in {"rejected", "deviceNotArray"}
       THEN /\ pc' = [pc EXCEPT ![p] = "rejected"]
            /\ UNCHANGED startupLog
       ELSE IF ~HasAMD(info)
       THEN /\ pc' = [pc EXCEPT ![p] = "returned"]
            /\ UNCHANGED startupLog
       ELSE /\ pc' = [pc EXCEPT ![p] = "resolving"]
            /\ startupLog' = [startupLog EXCEPT
                                ![p] = Append(@, "Detected AMD GPU on Windows")]
    /\ UNCHANGED <<platform, processEnv, rtssProbe, rtssRunning, middlewares>>
    /\ UNCHANGED launchVars

\* await app.host.getGPUInfo('basic') ends with info; the function runs on
\* to its return or to the registry.get(LaunchService) it waits for
AMDProbe(p, info) ==
    /\ p \in AMDPlugins
    /\ pc[p] = "probing"
    /\ gpuInfo' = [gpuInfo EXCEPT ![p] = Some(info)]
    /\ IF info.kind \in {"rejected", "deviceNotArray"}
       THEN \* the await throws, or gpus.some is not a function
            /\ pc' = [pc EXCEPT ![p] = "rejected"]
            /\ UNCHANGED startupLog
       ELSE IF ~HasAMD(info)
       THEN /\ pc' = [pc EXCEPT ![p] = "returned"]
            /\ UNCHANGED startupLog
       ELSE /\ pc' = [pc EXCEPT ![p] = "resolving"]
            /\ startupLog' = [startupLog EXCEPT
                                ![p] = Append(@, "Detected AMD GPU on Windows")]
    /\ UNCHANGED <<platform, processEnv, rtssProbe, rtssRunning, middlewares>>
    /\ UNCHANGED launchVars

\* await exec('tasklist ...') ends with res; the catch block ignores a
\* failure and the function goes on to registry.get(LaunchService)
RTSSProbe(res) ==
    /\ pc["rtss"] = "probing"
    /\ rtssProbe' = Some(res)
    /\ rtssRunning' = IF res.threw THEN FALSE ELSE IncludesRTSS(res.stdout)
    /\ startupLog' = IF rtssRunning'
                     THEN [startupLog EXCEPT !["rtss"] = Append(@, "Detected RTSS running")]
                     ELSE startupLog
    /\ pc' = [pc EXCEPT !["rtss"] = "resolving"]
    /\ UNCHANGED <<platform, processEnv, gpuInfo, middlewares>>
    /\ UNCHANGED launchVars

\* a registry that puts the newest middleware first
RegisterMiddleware_Prepend(p) ==
    /\ pc[p] = "resolving"
    /\ middlewares' = <<Middleware(p)>> \o middlewares
    /\ pc' = [pc EXCEPT ![p] = "registered"]
    /\ UNCHANGED <<platform, processEnv, gpuInfo, rtssProbe, rtssRunning, startupLog>>
    /\ UNCHANGED launchVars

\* a callback that registers its middleware twice
RegisterMiddleware_Twice(p) ==
    /\ pc[p] = "resolving"
    /\ middlewares' = middlewares \o <<Middleware(p), Middleware(p)>>
    /\ pc' = [pc EXCEPT ![p] = "registered"]
    /\ UNCHANGED <<platform, processEnv, gpuInfo, rtssProbe, rtssRunning, startupLog>>
    /\ UNCHANGED launchVars

\* the then-callback of app.registry.get(LaunchService):
\* service.registerMiddleware({ name, onBeforeLaunch })
RegisterMiddleware(p) ==
    /\ pc[p] = "resolving"
    /\ middlewares' = Append(middlewares, Middleware(p))
    /\ pc' = [pc EXCEPT ![p] = "registered"]
    /\ UNCHANGED <<platform, processEnv, gpuInfo, rtssProbe, rtssRunning, startupLog>>
    /\ UNCHANGED launchVars

----------------------------------------------------------------------------
(* Launch *)

\* the hook of a registered middleware, applied to the request
OnBeforeLaunch(mw, inp, p) ==
    IF mw.hook = "amd" THEN AMDOnBeforeLaunch(p)
    ELSE IF mw.hook = "amd0" THEN AMD0OnBeforeLaunch(p)
    ELSE RTSSOnBeforeLaunch(inp, p, processEnv, rtssRunning)

\* a launch begins: it takes the hooks registered by now
BeginLaunch(inp, req) ==
    /\ lpc = "idle"
    /\ lpc' = "running"
    /\ queue' = middlewares
    /\ ran' = <<>>
    /\ input' = inp
    /\ payload' = req
    /\ orig' = req
    /\ pre' = req
    /\ lastLog' = <<>>
    /\ removed' = <<0, 0>>
    /\ UNCHANGED <<platform, processEnv>>
    /\ UNCHANGED plugVars

\* an invocation that walks the registry as it is now, so that a hook
\* registered while the launch runs is invoked too
InvokeHook_LiveRegistry ==
    /\ lpc = "running"
    /\ Len(ran) < Len(middlewares)
    /\ LET out == OnBeforeLaunch(middlewares[Len(ran) + 1], input, payload)
       IN /\ payload' = out.payload
          /\ lastLog' = out.log
          /\ removed' = out.removed
          /\ lpc' = IF out.threw THEN "failed" ELSE "running"
    /\ pre' = payload
    /\ ran' = Append(ran, middlewares[Len(ran) + 1])
    /\ queue' = SubSeq(middlewares, Len(ran) + 2, Len(middlewares))
    /\ UNCHANGED <<input, orig>>
    /\ UNCHANGED <<platform, processEnv>>
    /\ UNCHANGED plugVars

\* an invocation that starts the next two hooks together on the same request
\* (Promise.all): both read the request as it is, the second overwrites the first
InvokeHook_Concurrent ==
    /\ lpc = "running"
    /\ queue # <<>>
    /\ LET both == SubSeq(queue, 1, IF Len(queue) >= 2 THEN 2 ELSE 1)
           out  == OnBeforeLaunch(both[Len(both)], input, payload)
       IN /\ payload' = out.payload
          /\ lastLog' = out.log
          /\ removed' = out.removed
          /\ lpc' = IF out.threw THEN "failed" ELSE "running"
          /\ ran' = ran \o both
          /\ queue' = SubSeq(queue, Len(both) + 1, Len(queue))
    /\ pre' = payload
    /\ UNCHANGED <<input, orig>>
    /\ UNCHANGED <<platform, processEnv>>
    /\ UNCHANGED plugVars

\* an invocation that swallows the hook's failure and goes on
InvokeHook_Swallow ==
    /\ lpc = "running"
    /\ queue # <<>>
    /\ LET out == OnBeforeLaunch(Head(queue), input, payload)
       IN /\ payload' = out.payload
          /\ lastLog' = out.log
          /\ removed' = out.removed
    /\ pre' = payload
    /\ ran' = Append(ran, Head(queue))
    /\ queue' = Tail(queue)
    /\ UNCHANGED <<lpc, input, orig>>
    /\ UNCHANGED <<platform, processEnv>>
    /\ UNCHANGED plugVars

\* the next hook of the launch is awaited; a hook that throws ends the launch
\* with its failure, the hooks behind it are not invoked
InvokeHook ==
    /\ lpc = "running"
    /\ queue # <<>>
    /\ LET out == OnBeforeLaunch(Head(queue), input, payload)
       IN /\ payload' = out.payload
          /\ lastLog' = out.log
          /\ removed' = out.removed
          /\ lpc' = IF out.threw THEN "failed" ELSE "running"
    /\ pre' = payload
    /\ ran' = Append(ran, Head(queue))
    /\ queue' = Tail(queue)
    /\ UNCHANGED <<input, orig>>
    /\ UNCHANGED <<platform, processEnv>>
    /\ UNCHANGED plugVars

\* every hook has run: the request goes to process spawn
Spawn ==
    /\ lpc = "running"
    /\ queue = <<>>
    /\ lpc' = "spawned"
    /\ UNCHANGED <<queue, ran, input, payload, orig, pre, lastLog, removed>>
    /\ UNCHANGED <<platform, processEnv>>
    /\ UNCHANGED plugVars

\* the launch is over (spawned, or failed) and its request dropped
Finish ==
    /\ lpc \in {"spawned", "failed"}
    /\ lpc' = "idle"
    /\ queue' = <<>>
    /\ ran' = <<>>
    /\ input' = [gameDirectory |-> "/game"]
    /\ payload' = NoRequest
    /\ orig' = NoRequest
    /\ pre' = NoRequest
    /\ lastLog' = <<>>
    /\ removed' = <<0, 0>>
    /\ UNCHANGED <<platform, processEnv>>
    /\ UNCHANGED plugVars

----------------------------------------------------------------------------
(* Specification *)

Init ==
    /\ platform \in {"windows", "linux"}
    /\ processEnv \in InheritedEnvs
    /\ pc = [p \in Plugins |-> "start"]
    /\ gpuInfo = [p \in AMDPlugins |-> None]
    /\ rtssProbe = None
    /\ rtssRunning = FALSE
    /\ startupLog = [p \in Plugins |-> <<>>]
    /\ middlewares = <<>>
    /\ lpc = "idle"
    /\ queue = <<>>
    /\ ran = <<>>
    /\ input = [gameDirectory |-> "/game"]
    /\ payload = NoRequest
    /\ orig = NoRequest
    /\ pre = NoRequest
    /\ lastLog = <<>>
    /\ removed = <<0, 0>>

Next ==
    \/ \E p \in Plugins : PlatformCheck(p)
    \/ \E p \in AMDPlugins, info \in GPUInfos : AMDProbe(p, info)
    \/ \E res \in TasklistResults : RTSSProbe(res)
    \/ \E p \in Plugins : RegisterMiddleware(p)
    \/ \E inp \in Inputs, req \in Requests : BeginLaunch(inp, req)
    \/ InvokeHook
    \/ Spawn
    \/ Finish

Spec == Init /\ [][Next]_vars

----------------------------------------------------------------------------
(* Vocabulary of the properties *)

Last(s) == s[Len(s)]

\* a hook has been invoked for the launch at hand: payload is what it left,
\* pre what it received
Invoked == lpc # "idle" /\ ran # <<>>

AMDRanOnClient == Invoked /\ Last(ran).hook \in AMDPlugins /\ orig.side = "client"
RTSSRanOnClient == Invoked /\ Last(ran).hook = "rtss" /\ orig.side = "client"

\* the disallowed prefixes, as the specification lists them
DisallowedPrefixes ==
    { <<"-D", "jna.tmpdir", "=">>,
      <<"-D", "org.lwjgl.system.SharedLibraryExtractPath", "=">>,
      <<"-D", "io.netty.native.workdir", "=">> }

HasDisallowedPrefix(str) ==
    \E pre_ \in DisallowedPrefixes :
        /\ Len(pre_) <= Len(str)
        /\ \A i \in 1..Len(pre_) : str[i] = pre_[i]

\* an absent list counts as the empty list
ListOf(opt) == IF opt = None THEN <<>> ELSE opt[1]

ExtraList(p) == ListOf(p.options.extraJVMArgs)
JvmList(p) ==
    IF p.version.arguments = None THEN <<>> ELSE ListOf(p.version.arguments[1].jvm)

\* a is b with some entries left out
IsSubsequence(a, b) ==
    \E f \in [1..Len(a) -> 1..Len(b)] :
        /\ \A i, j \in 1..Len(a) : i < j => f[i] < f[j]
        /\ \A i \in 1..Len(a) : a[i] = b[f[i]]

IsRuleEntry(e) == ~e.isString
IsCleanJvmString(e) == e.isString /\ ~HasDisallowedPrefix(e.value)
IsCleanString(str) == ~HasDisallowedPrefix(str)

HasEnv(p) ==
    /\ p.options.extraExecOption # None
    /\ p.options.extraExecOption[1].env # None
EnvMap(p) == p.options.extraExecOption[1].env[1]

----------------------------------------------------------------------------
(* Properties *)

\* C1: a client-only hook invoked on a server-side request leaves the whole
\* request as it received it and logs nothing; so the request of a
\* server-side launch stays what the launch received, whatever hooks ran
C1_SideGating ==
    (lpc # "idle" /\ orig.side = "server") =>
        /\ payload = orig
        /\ Invoked => (payload = pre /\ lastLog = <<>>)

\* C1: a server-side launch with arguments and an environment map has run
\* three hooks and reached process spawn
C1_Witness ==
    /\ lpc = "spawned"
    /\ orig.side = "server"
    /\ Len(ran) = 3
    /\ ExtraList(orig) # <<>>
    /\ HasEnv(orig)

\* C2: after an 'amd-gpu-workaround' hook (either one of the sources) ran on a
\* client-side request, no string of options.extraJVMArgs and no string entry
\* of version.arguments.jvm starts with a disallowed prefix
C2_SanitizerComplete ==
    AMDRanOnClient =>
        /\ \A i \in 1..Len(ExtraList(payload)) :
              ~HasDisallowedPrefix(ExtraList(payload)[i])
        /\ \A i \in 1..Len(JvmList(payload)) :
              JvmList(payload)[i].isString =>
                  ~HasDisallowedPrefix(JvmList(payload)[i].value)

\* C3: after the RTSS hook ran on a client-side request every key of the
\* environment map holds the override value if it is an override key, else
\* the value of the map the request carried if the key is there, else the
\* value inherited from process.env; every override key is present
C3_EnvPrecedence ==
    RTSSRanOnClient =>
        /\ HasEnv(payload)
        /\ OverrideKeys \subseteq DOMAIN EnvMap(payload)
        /\ \A k \in DOMAIN EnvMap(payload) :
              IF k \in OverrideKeys
              THEN EnvMap(payload)[k] = "1"
              ELSE IF HasEnv(pre) /\ k \in DOMAIN EnvMap(pre)
              THEN EnvMap(payload)[k] = EnvMap(pre)[k]
              ELSE k \in DOMAIN processEnv /\ EnvMap(payload)[k] = processEnv[k]

\* C3: the three collisions at once: PATH inherited and carried, NoHook
\* carried and overridden, RTSS_EXCLUDE inherited and overridden
C3_Witness ==
    /\ RTSSRanOnClient
    /\ HasEnv(pre)
    /\ {"PATH", "RTSS_EXCLUDE"} \subseteq DOMAIN processEnv
    /\ {"PATH", "NoHook"} \subseteq DOMAIN EnvMap(pre)
    /\ "RTSS_EXCLUDE" \notin DOMAIN EnvMap(pre)
    /\ EnvMap(pre)["PATH"] # processEnv["PATH"]
    /\ EnvMap(pre)["NoHook"] # "1"
    /\ processEnv["RTSS_EXCLUDE"] # "1"

\* C4: when the request carried no environment map (no spawn options, or
\* spawn options without env) the map after the RTSS hook is exactly the
\* inherited environment with the override variables on top
C4_EnvSeeding ==
    (RTSSRanOnClient /\ ~HasEnv(pre)) =>
        /\ HasEnv(payload)
        /\ DOMAIN EnvMap(payload) = (DOMAIN processEnv) \cup OverrideKeys
        /\ \A k \in DOMAIN EnvMap(payload) :
              EnvMap(payload)[k] = IF k \in OverrideKeys THEN "1" ELSE processEnv[k]

\* C4: inherited {PATH: "/bin"}, no spawn options: PATH = "/bin" and
\* RTSS_EXCLUDE = "1" after the hook
C4_Witness ==
    /\ RTSSRanOnClient
    /\ pre.options.extraExecOption = None
    /\ DOMAIN processEnv = {"PATH"}
    /\ EnvMap(payload)["PATH"] = "/bin"
    /\ EnvMap(payload)["RTSS_EXCLUDE"] = "1"

\* C5: applying the AMD hook that just ran once more changes neither argument
\* list and removes nothing; and an AMD hook that runs after another AMD hook
\* of the same launch finds the request filtered: it changes neither list and
\* removes nothing
C5_Idempotence ==
    AMDRanOnClient =>
        /\ LET again == OnBeforeLaunch(Last(ran), input, payload)
           IN /\ ExtraList(again.payload) = ExtraList(payload)
              /\ JvmList(again.payload) = JvmList(payload)
              /\ again.removed = <<0, 0>>
        /\ (\E i \in 1..(Len(ran) - 1) : ran[i].hook \in AMDPlugins) =>
              /\ ExtraList(payload) = ExtraList(pre)
              /\ JvmList(payload) = JvmList(pre)
              /\ removed = <<0, 0>>

\* C6: each argument list an AMD hook leaves is a subsequence of the list it
\* received (order kept, nothing inserted or duplicated), every entry without
\* a disallowed prefix survives, and the removed count is the difference of
\* the lengths
C6_OrderPreserved ==
    AMDRanOnClient =>
        /\ IsSubsequence(ExtraList(payload), ExtraList(pre))
        /\ SelectSeq(ExtraList(payload), IsCleanString)
             = SelectSeq(ExtraList(pre), IsCleanString)
        /\ removed[1] = Len(ExtraList(pre)) - Len(ExtraList(payload))
        /\ IsSubsequence(JvmList(payload), JvmList(pre))
        /\ SelectSeq(JvmList(payload), IsCleanJvmString)
             = SelectSeq(JvmList(pre), IsCleanJvmString)
        /\ removed[2] = Len(JvmList(pre)) - Len(JvmList(payload))

\* C6: ["-Djna.tmpdir=/x", "-Xmx2G"] became ["-Xmx2G"], one entry removed
C6_Witness ==
    /\ AMDRanOnClient
    /\ ExtraList(pre) = <<Jna, Xmx>>
    /\ ExtraList(payload) = <<Xmx>>
    /\ removed[1] = 1

\* C7: the rule-based entries of version.arguments.jvm after an AMD hook are
\* those before it, unaltered and in the same order, and the list it leaves
\* is a subsequence of the list it received: a rule-based entry is never
\* prefix-matched, whatever its value
C7_RuleEntriesKept ==
    AMDRanOnClient =>
        /\ SelectSeq(JvmList(payload), IsRuleEntry) = SelectSeq(JvmList(pre), IsRuleEntry)
        /\ IsSubsequence(JvmList(payload), JvmList(pre))

\* C7: the filter removed a string entry and kept the rule-based entry next
\* to it, whose value starts with a disallowed prefix
C7_Witness ==
    /\ AMDRanOnClient
    /\ Last(ran).hook = "amd"
    /\ JvmList(pre) = <<StringArg(Netty), RuleArg(Jna)>>
    /\ JvmList(payload) = <<RuleArg(Jna)>>

\* kinds of getGPUInfo outcome that are a failure or an unexpected shape
FailedProbeKinds == {"rejected", "undefined", "noDeviceList", "deviceNotArray"}

ProbeFailed(p) == gpuInfo[p] # None /\ gpuInfo[p][1].kind \in FailedProbeKinds

\* C8: an AMD plugin whose getGPUInfo failed or came back without a device
\* list never registers: its startup is over, no hook of it is in the
\* registry, and no launch invokes or awaits a hook of it
C8_GpuProbeFailOpen ==
    \A p \in AMDPlugins :
        ProbeFailed(p) =>
            /\ pc[p] \in {"rejected", "returned"}
            /\ \A i \in 1..Len(middlewares) : middlewares[i].hook # p
            /\ \A i \in 1..Len(ran) : ran[i].hook # p
            /\ \A i \in 1..Len(queue) : queue[i].hook # p

\* C8: both AMD probes failed (one rejected, one without inventory) and a
\* client-side launch reached process spawn with its problematic argument
C8_Witness ==
    /\ gpuInfo["amd"] # None /\ gpuInfo["amd"][1].kind = "rejected"
    /\ gpuInfo["amd0"] # None /\ gpuInfo["amd0"][1].kind = "undefined"
    /\ lpc = "spawned"
    /\ orig.side = "client"
    /\ ExtraList(orig) # <<>>
    /\ HasDisallowedPrefix(ExtraList(orig)[1])
    /\ ExtraList(payload) = ExtraList(orig)
    /\ Len(ran) = 1

\* C9: when the tasklist query of the RTSS plugin throws, 'rtss-workaround'
\* is not registered and no launch has its environment modified by it
C9_ProcessProbeFailOpen ==
    (rtssProbe # None /\ rtssProbe[1].threw) =>
        /\ \A i \in 1..Len(middlewares) : middlewares[i].name # "rtss-workaround"
        /\ \A i \in 1..Len(ran) : ran[i].name # "rtss-workaround"

\* the probe of a plugin came back positive: a device with vendor id 4098,
\* RTSS.exe among the running processes
ProbePositive(p) ==
    IF p = "rtss"
    THEN /\ rtssProbe # None
         /\ ~rtssProbe[1].threw
         /\ \E i \in 1..Len(rtssProbe[1].stdout) :
               rtssProbe[1].stdout[i] \in {"RTSS.exe", "rtss.exe"}
    ELSE /\ gpuInfo[p] # None
         /\ gpuInfo[p][1].kind = "deviceList"
         /\ \E i \in 1..Len(gpuInfo[p][1].gpuDevice) :
               gpuInfo[p][1].gpuDevice[i] = <<[vendorId |-> 4098]>>

\* C10: a hook is in the registry only if the platform is Windows and the
\* plugin's probe came back positive; off Windows no probe is invoked and
\* nothing is registered
C10_RegisteredOnlyWhenApplicable ==
    /\ \A i \in 1..Len(middlewares) :
          platform = "windows" /\ ProbePositive(middlewares[i].hook)
    /\ platform # "windows" =>
          /\ middlewares = <<>>
          /\ rtssProbe = None
          /\ \A p \in AMDPlugins : gpuInfo[p] = None
          /\ \A p \in Plugins : pc[p] \in {"start", "returned"}

----------------------------------------------------------------------------
(* Properties of the pipeline *)

\* the hooks of hs applied one after the other, each to what the one before
\* left; a hook that throws ends the chain
RECURSIVE ApplyAll(_, _, _)
ApplyAll(hs, inp, p) ==
    IF hs = <<>>
    THEN p
    ELSE LET out == OnBeforeLaunch(Head(hs), inp, p)
         IN IF out.threw THEN out.payload ELSE ApplyAll(Tail(hs), inp, out.payload)

\* the hooks of the launch at hand: those invoked, then those still to invoke
LaunchHooks == ran \o queue

IsPrefix(a, b) == Len(a) <= Len(b) /\ SubSeq(b, 1, Len(a)) = a

\* C11 (state part): the hooks of a launch are registered hooks in registration
\* order, none twice; the request is the composition of the hooks invoked so
\* far, the last hook received the composition of those before it, and at
\* process spawn every hook of the launch has been invoked
PipelineOrderInv ==
    lpc # "idle" =>
        /\ IsPrefix(LaunchHooks, middlewares)
        /\ \A i, j \in 1..Len(LaunchHooks) : i # j => LaunchHooks[i] # LaunchHooks[j]
        /\ payload = ApplyAll(ran, input, orig)
        /\ Invoked => pre = ApplyAll(SubSeq(ran, 1, Len(ran) - 1), input, orig)
        /\ lpc = "spawned" => queue = <<>>

\* C11: for every launch the hooks registered when it is invoked are each
\* called once, in registration order, on the one request, each hook seeing
\* the request as the hooks before it left it: a launch starts with exactly
\* the registered hooks to invoke, keeps that list to its end, invokes them
\* from the front, and PipelineOrderInv holds throughout
C11_PipelineOrder ==
    /\ []PipelineOrderInv
    /\ [][(lpc = "idle" /\ lpc' = "running") =>
             (queue' = middlewares /\ ran' = <<>> /\ payload' = orig')]_vars
    /\ [][(lpc = "running" /\ lpc' # "idle") =>
             (ran' \o queue' = ran \o queue /\ IsPrefix(ran, ran'))]_vars

\* C11: a client-side launch reached process spawn after three hooks, RTSS
\* first, and its request is not the one it received
C11_Witness ==
    /\ lpc = "spawned"
    /\ orig.side = "client"
    /\ Len(ran) = 3
    /\ ran[1].hook = "rtss"
    /\ ran[3].hook = "amd"
    /\ ExtraList(payload) # ExtraList(orig)
    /\ JvmList(payload) # JvmList(orig)

\* C12: when a hook fails during a launch the failure ends the launch: the
\* launch is failed exactly when its last invoked hook threw, and a failed
\* launch invokes no further hook and never reaches process spawn
C12_FailureVisible ==
    /\ [](Invoked => (lpc = "failed" <=> OnBeforeLaunch(Last(ran), input, pre).threw))
    /\ [](lpc = "failed" => Invoked)
    /\ [][lpc = "failed" =>
             /\ lpc' \in {"failed", "idle"}
             /\ lpc' = "failed" => UNCHANGED <<ran, queue, payload>>]_vars

\* C12: the second hook of a launch failed on a request the first hook had
\* already changed, with a hook still to invoke
C12_Witness ==
    /\ lpc = "failed"
    /\ Len(ran) = 2
    /\ queue # <<>>
    /\ payload # orig

Range(f) == {f[i] : i \in DOMAIN f}

\* C13: a launch takes the hooks of exactly the plugins whose registration is
\* complete when it begins; a registration that completes later leaves the
\* running launch as it is, so that launch neither waits for the patch nor is
\* mutated by it.  Nothing waits for a probe: a launch can always begin and
\* proceed, and a plugin that has its probe answer can always register,
\* whatever the other plugins are waiting for
C13_RegistrationRace ==
    /\ [][(lpc = "idle" /\ lpc' = "running") =>
             \A p \in Plugins : (Middleware(p) \in Range(queue')) <=> (pc[p] = "registered")]_vars
    /\ [][(middlewares' # middlewares) => UNCHANGED launchVars]_vars
    /\ [][(lpc = "running" /\ lpc' # "idle") =>
             Range(ran') \cup Range(queue') = Range(ran) \cup Range(queue)]_vars
    /\ [](lpc = "idle" => ENABLED (\E inp \in Inputs, req \in Requests : BeginLaunch(inp, req)))
    /\ [](lpc = "running" => ENABLED (InvokeHook \/ Spawn))
    /\ [](\A p \in Plugins : pc[p] = "resolving" => ENABLED RegisterMiddleware(p))

\* C13: the AMD patch registered while a client-side launch was running; the
\* launch reached process spawn with the RTSS hook only and its problematic
\* argument, while the probe of the other AMD plugin is still out
C13_Witness ==
    /\ lpc = "spawned"
    /\ orig.side = "client"
    /\ pc["amd"] = "registered"
    /\ pc["amd0"] = "probing"
    /\ ran = <<Middleware("rtss")>>
    /\ ExtraList(payload) # <<>>
    /\ HasDisallowedPrefix(ExtraList(payload)[1])

\* every entry of the extra JVM arguments is a string
WellTyped(p) == \A i \in 1..Len(ExtraList(p)) : ExtraList(p)[i] # NullEntry

\* C14: on a client-side request a hook does not fail for an absent field.
\* An AMD hook leaves extraJVMArgs present, the empty list with 0 removed if it
\* was absent, and leaves the version alone with 0 removed if it has no jvm
\* list; the RTSS hook leaves spawn options with an environment map, the
\* default ones (shell false, detached, cwd the game directory) if there were none
C14_AbsentFieldsOk ==
    (Invoked /\ orig.side = "client" /\ WellTyped(pre)) =>
        /\ lpc # "failed"
        /\ Last(ran).hook \in AMDPlugins =>
              /\ payload.options.extraJVMArgs # None
              /\ pre.options.extraJVMArgs = None =>
                    (payload.options.extraJVMArgs = <<<<>>>> /\ removed[1] = 0)
              /\ JvmList(pre) = <<>> => (payload.version = pre.version /\ removed[2] = 0)
        /\ Last(ran).hook = "rtss" =>
              /\ HasEnv(payload)
              /\ pre.options.extraExecOption = None =>
                    /\ payload.options.extraExecOption[1].shell = FALSE
                    /\ payload.options.extraExecOption[1].detached = TRUE
                    /\ payload.options.extraExecOption[1].cwd = input.gameDirectory

\* C14: a client-side request without extra JVM arguments, without version
\* arguments and without spawn options went through all three hooks to spawn
C14_Witness ==
    /\ lpc = "spawned"
    /\ orig.side = "client"
    /\ orig.options.extraJVMArgs = None
    /\ orig.options.extraExecOption = None
    /\ ~orig.version.hasArguments
    /\ Len(ran) = 3
    /\ payload.options.extraJVMArgs = <<<<>>>>
    /\ HasEnv(payload)

\* C15: the registry only grows by appending: every step leaves the registered
\* middlewares as a prefix of the new registry, in the same order, and adds at
\* most one; a plugin marked registered has its middleware in the registry
C15_AppendOnly ==
    /\ [][/\ IsPrefix(middlewares, middlewares')
          /\ Len(middlewares') <= Len(middlewares) + 1]_vars
    /\ [](\A p \in Plugins : pc[p] = "registered" => Middleware(p) \in Range(middlewares))

\* C15: all three middlewares are registered, the last two while a launch that
\* began with one hook was running, and that launch spawned
C15_Witness ==
    /\ Len(middlewares) = 3
    /\ lpc = "spawned"
    /\ Len(ran) = 1
    /\ ran[1] = middlewares[1]

\* C16: the hooks of a launch run one after the other on its request. While a
\* launch runs, the request changes only in a step that invokes exactly one
\* hook, on the request the previous step left, and leaves that hook's whole
\* result; after the last hook (or a failure) the request is not changed again;
\* the request is at any time the complete result of the last hook invoked
C16_Sequential ==
    /\ [][(lpc = "running" /\ (payload' # payload \/ ran' # ran)) =>
             /\ queue # <<>>
             /\ ran' = Append(ran, Head(queue))
             /\ queue' = Tail(queue)
             /\ pre' = payload
             /\ payload' = OnBeforeLaunch(Head(queue), input, payload).payload]_vars
    /\ [][(lpc \in {"spawned", "failed"} /\ lpc' # "idle") =>
             UNCHANGED <<payload, ran, queue, pre>>]_vars
    /\ [](Invoked => payload = OnBeforeLaunch(Last(ran), input, pre).payload)

\* C16: a launch is between its second and its third hook, and both hooks
\* invoked so far changed the request
C16_Witness ==
    /\ lpc = "running"
    /\ Len(ran) = 2
    /\ queue # <<>>
    /\ pre # orig
    /\ payload # pre

\* the answer a plugin's probe gave, None while it has not been asked
ProbeAnswer(p) == IF p \in AMDPlugins THEN gpuInfo[p] ELSE rtssProbe

\* C17: a probe is asked at most once and before registration, and no launch
\* asks again. An answer once given never changes; a plugin that is about to
\* register or has registered has its answer; a registered AMD hook stands on
\* an answer that showed an AMD GPU; no step of a launch touches an answer,
\* the flag computed from it, or a plugin's position
C17_OneTimeProbe ==
    /\ [][/\ \A p \in AMDPlugins : gpuInfo[p] # None => gpuInfo'[p] = gpuInfo[p]
          /\ rtssProbe # None => (rtssProbe' = rtssProbe /\ rtssRunning' = rtssRunning)]_vars
    /\ [][launchVars' # launchVars =>
             UNCHANGED <<gpuInfo, rtssProbe, rtssRunning, pc, middlewares>>]_vars
    /\ [](\A p \in Plugins :
             /\ pc[p] \in {"resolving", "registered"} => ProbeAnswer(p) # None
             /\ pc[p] \in {"start", "probing"} => ProbeAnswer(p) = None
             /\ (p \in AMDPlugins /\ Middleware(p) \in Range(middlewares)) =>
                    HasAMD(Get(gpuInfo[p])))

\* C17: both plugins of the shipped files probed and registered, and a launch
\* that took both hooks ran them and spawned
C17_Witness ==
    /\ lpc = "spawned"
    /\ pc["amd"] = "registered"
    /\ pc["rtss"] = "registered"
    /\ gpuInfo["amd"] # None
    /\ rtssProbe # None
    /\ Middleware("amd") \in Range(ran)
    /\ Middleware("rtss") \in Range(ran)

\* the probe of a plugin failed: getGPUInfo rejected or came back in an
\* unexpected shape, the tasklist query threw
AnyProbeFailed(p) ==
    IF p \in AMDPlugins THEN ProbeFailed(p)
    ELSE rtssProbe # None /\ rtssProbe[1].threw

\* C18: a plugin whose probe failed has returned normally with the decision
\* not applicable: its function neither ended in a rejection nor went on to
\* register
C18_ProbeFailureNotFatal ==
    \A p \in Plugins : AnyProbeFailed(p) => pc[p] = "returned"

\* C19: a plugin whose applicability check is over, with either decision, has
\* written a log record of the decision
C19_DecisionLogged ==
    \A p \in Plugins :
        pc[p] \in {"returned", "rejected", "resolving", "registered"} =>
            startupLog[p] # <<>>

\* the orders in which the hooks of hs can be registered
Orders(hs) ==
    LET n == Len(hs)
        bij == {f \in [1..n -> 1..n] : \A i, j \in 1..n : i # j => f[i] # f[j]}
    IN {[i \in 1..n |-> hs[f[i]]] : f \in bij}

\* C20: the hooks commute. The request of a client-side launch that reached
\* process spawn is what its hooks give in any other order of registration;
\* an AMD hook leaves the side and the spawn options as they were, the RTSS
\* hook leaves the side, the extra JVM arguments and the version as they were
C20_HooksCommute ==
    /\ (lpc = "spawned" /\ orig.side = "client") =>
           \A hs \in Orders(ran) : ApplyAll(hs, input, orig) = payload
    /\ (Invoked /\ Last(ran).hook \in AMDPlugins) =>
           /\ payload.side = pre.side
           /\ payload.options.extraExecOption = pre.options.extraExecOption
    /\ (Invoked /\ Last(ran).hook = "rtss") =>
           /\ payload.side = pre.side
           /\ payload.options.extraJVMArgs = pre.options.extraJVMArgs
           /\ payload.version = pre.version

\* C20: a client-side launch ran 'rtss-workaround' before 'amd-gpu-workaround'
\* and spawned; the AMD hook removed an extra argument and a version argument,
\* the RTSS hook wrote over an environment variable the request had set
C20_Witness ==
    /\ lpc = "spawned"
    /\ orig.side = "client"
    /\ ran = <<Middleware("rtss"), Middleware("amd")>>
    /\ Len(ExtraList(payload)) < Len(ExtraList(orig))
    /\ Len(JvmList(payload)) < Len(JvmList(orig))
    /\ HasEnv(orig)
    /\ EnvMap(payload) # EnvMap(orig)
    /\ ApplyAll(<<Middleware("amd"), Middleware("rtss")>>, input, orig) = payload

====
